---- MODULE Spec2Model ----
(***************************************************************************)
(* State-machine model of src/src/main.rs: main (terminal setup, run_app,  *)
(* teardown), run_app (main menu loop), select_disk (disk picker loop) and *)
(* get_available_disks (lsblk output parsing).                             *)
(*                                                                         *)
(* Strings are sequences of one-character strings, so that splitting and   *)
(* prefixing are computed.  Rust indices are 0-based; TLA+ sequences are   *)
(* 1-based, hence s[i + 1] for Rust's s[i].                                *)
(***************************************************************************)
EXTENDS Integers, Sequences, FiniteSets, TLC

\* ---------------------------------------------------------------- bounds
\* Number of input events read (both loops) in one run, not counting a
\* final Enter or Esc in select_disk.
MaxTicks == 4
\* Maximum number of lines printed by one run of lsblk.
MaxLines == 3

\* ------------------------------------------------------------- constants
\* run_app: let menu_items = vec!["Install Arch Linux", "Exit"];
menu_items == <<"Install Arch Linux", "Exit">>

\* What event::read() can deliver: the four keys the loops match on, some
\* other key (KeyCode::Char ...), and an event that is not Event::Key.
Events == {"Up", "Down", "Enter", "Esc", "OtherKey", "NonKey"}

\* io::Error values met in the program, by origin.
\*   NotFound    : select_disk, "No disks found"
\*   Interrupted : select_disk, "Disk selection canceled"
\*   Draw        : terminal.draw(...)? failed
\*   Read        : event::read()? failed
ErrKinds == {"NotFound", "Interrupted", "Draw", "Read"}

\* ------------------------------------------------- lsblk output (strings)
s_disk == <<"d", "i", "s", "k">>
s_dev == <<"/", "d", "e", "v", "/">>
line_sda == <<"s", "d", "a", " ", "d", "i", "s", "k">>
line_sdb == <<"s", "d", "b", " ", " ", "d", "i", "s", "k">>
line_sr0 == <<"s", "r", "0", " ", "r", "o", "m">>
dev_sda == <<"/", "d", "e", "v", "/", "s", "d", "a">>
dev_sdb == <<"/", "d", "e", "v", "/", "s", "d", "b">>
dev_sdf == <<"/", "d", "e", "v", "/", "s", "d", "f">>

\* The lines lsblk -d -n -o NAME TYPE may print in this model.
LsblkLines == {line_sda, line_sdb, line_sr0}

\* unicode White_Space characters that occur in the modelled alphabet
IsWhitespace(c) == c \in {" ", "\t", "\n"}

RECURSIVE JoinLines(_)
\* the bytes of an output made of the given lines, each ended by a newline
JoinLines(ls) ==
    IF ls = <<>> THEN <<>> ELSE Head(ls) \o <<"\n">> \o JoinLines(Tail(ls))

RECURSIVE SeqsUpTo(_, _)
SeqsUpTo(S, n) ==
    IF n = 0 THEN {<<>>}
    ELSE LET shorter == SeqsUpTo(S, n - 1)
         IN  shorter \cup {Append(s, x) : s \in shorter, x \in S}

\* Every stdout the external command may produce.
LsblkOutputs == {JoinLines(ls) : ls \in SeqsUpTo(LsblkLines, MaxLines)}

RECURSIVE LinesFrom(_, _)
\* str::lines(): split at "\n"; a final line without newline is yielded,
\* an empty remainder after the last newline is not.
LinesFrom(s, cur) ==
    IF s = <<>> THEN (IF cur = <<>> THEN <<>> ELSE <<cur>>)
    ELSE IF Head(s) = "\n" THEN <<cur>> \o LinesFrom(Tail(s), <<>>)
    ELSE LinesFrom(Tail(s), Append(cur, Head(s)))

Lines(s) == LinesFrom(s, <<>>)

RECURSIVE SplitFrom(_, _)
\* str::split_whitespace(): maximal runs of non-whitespace characters.
SplitFrom(s, cur) ==
    IF s = <<>> THEN (IF cur = <<>> THEN <<>> ELSE <<cur>>)
    ELSE IF IsWhitespace(Head(s))
         THEN (IF cur = <<>> THEN <<>> ELSE <<cur>>) \o SplitFrom(Tail(s), <<>>)
    ELSE SplitFrom(Tail(s), Append(cur, Head(s)))

split_whitespace(line) == SplitFrom(line, <<>>)

\* a slip of line 121: the number of fields is not checked
disk_of_line_any_len(line) ==
    LET parts == split_whitespace(line)
    IN  IF Len(parts) >= 2 /\ parts[2] = s_disk
        THEN <<s_dev \o parts[1]>>
        ELSE <<>>

\* The closure of filter_map (lines 119-126): Some(path) as <<path>>, None
\* as <<>>.
disk_of_line(line) ==
    LET parts == split_whitespace(line)
    IN  IF Len(parts) = 2 /\ parts[2] = s_disk
        THEN <<s_dev \o parts[1]>>
        ELSE <<>>

RECURSIVE filter_map_lines(_)
filter_map_lines(ls) ==
    IF ls = <<>> THEN <<>>
    ELSE disk_of_line(Head(ls)) \o filter_map_lines(Tail(ls))

\* get_available_disks, lines 116-127, applied to the command's stdout.
get_available_disks(stdout) == filter_map_lines(Lines(stdout))


\* ------------------------------------------------------- cursor movement
\* a slip of lines 75-77: Up at the top wraps to the last item
run_app_up_wrapping(i) == IF i > 0 THEN i - 1 ELSE Len(menu_items) - 1

\* run_app, KeyCode::Up (lines 74-78)
run_app_up(i) == IF i > 0 THEN i - 1 ELSE i

\* a slip of line 80: the bound is len() instead of len() - 1
run_app_down_off_by_one(i) == IF i < Len(menu_items) THEN i + 1 ELSE i

\* run_app, KeyCode::Down (lines 79-83)
run_app_down(i) == IF i < Len(menu_items) - 1 THEN i + 1 ELSE i

\* select_disk, KeyCode::Up (lines 160-164)
select_disk_up(i) == IF i > 0 THEN i - 1 ELSE i

\* a slip of line 166: the bound check is missing
select_disk_down_unguarded(i, n) == i + 1

\* select_disk, KeyCode::Down (lines 165-169); n is disks.len()
select_disk_down(i, n) == IF i < n - 1 THEN i + 1 ELSE i

\* a slip of line 171: the cursor is not used
select_disk_current_first(ds, i) == ds[1]

\* select_disk, KeyCode::Enter (line 171): disks[selected_index].clone()
select_disk_current(ds, i) == ds[i + 1]

\* ------------------------------------------------------------------ state
VARIABLES
    pc,                   \* position of the single thread of control
    raw_mode,             \* terminal is in raw input mode
    alt_screen,           \* terminal shows the alternate screen
    cursor_shown,         \* main's terminal.show_cursor() has succeeded
    res,                  \* main: let res = run_app(..)
    selected_index,       \* run_app's selected_index
    disk_selected_index,  \* select_disk's selected_index
    disks,                \* select_disk's disks
    output,               \* get_available_disks' latest .output() value
    selected_disk,        \* value of the latest select_disk(terminal) call
    last_event,           \* <<loop, event>> of the latest event::read()
    printed,              \* what println! has written, in order
    ticks,                \* number of events read so far
    pick_draws,           \* terminal.draw calls of the latest select_disk call
    pick_reads,           \* event::read calls of the latest select_disk call
    drawn,                \* latest terminal.draw call: title, items, highlighted
                          \* index (state.select), and whether it succeeded
    draws,                \* number of terminal.draw calls so far
    exit_status           \* how the process ended

vars == <<pc, raw_mode, alt_screen, cursor_shown, res, selected_index,
          disk_selected_index, disks, output, selected_disk,
          last_event, printed, ticks, pick_draws, pick_reads, drawn, draws,
          exit_status>>

term == <<raw_mode, alt_screen, cursor_shown>>
picker == <<disk_selected_index, disks, output, selected_disk,
            pick_draws, pick_reads>>
screen == <<drawn, draws>>

None == <<"None">>
Ok(v) == <<"Ok", v>>
Err(k) == <<"Err", k>>

\* Positions inside run_app's loop, inside select_disk, and in main's
\* teardown.
RunAppPcs == {"run_app_draw", "run_app_read"}
SelectDiskPcs == {"select_disk", "select_disk_draw", "select_disk_read"}

\* The Menu Controller's states of the specification, read off the code.
Running == pc \in RunAppPcs
TransferringToSubflow == pc \in SelectDiskPcs
Exited == res = Ok("unit")

Init ==
    /\ pc = "enable_raw_mode"
    /\ raw_mode = FALSE
    /\ alt_screen = FALSE
    /\ cursor_shown = FALSE
    /\ res = None
    /\ selected_index = 0
    /\ disk_selected_index = 0
    /\ disks = <<>>
    /\ output = None
    /\ selected_disk = None
    /\ last_event = None
    /\ printed = <<>>
    /\ ticks = 0
    /\ pick_draws = 0
    /\ pick_reads = 0
    /\ drawn = None
    /\ draws = 0
    /\ exit_status = "running"

\* ------------------------------------------------------------ main, setup
\* main returns Err(e) through a `?`: the process ends at once.
MainReturnsErr ==
    /\ pc' = "done"
    /\ exit_status' = "Err"

\* line 14: enable_raw_mode()?
main_enable_raw_mode ==
    /\ pc = "enable_raw_mode"
    /\ \E ok \in BOOLEAN :
         IF ok THEN /\ raw_mode' = TRUE
                    /\ pc' = "EnterAlternateScreen"
                    /\ UNCHANGED exit_status
               ELSE /\ MainReturnsErr
                    /\ UNCHANGED raw_mode
    /\ UNCHANGED <<screen, alt_screen, cursor_shown, res, selected_index, picker,
                   last_event, printed, ticks>>

\* line 16: execute!(stdout, EnterAlternateScreen)?
main_EnterAlternateScreen ==
    /\ pc = "EnterAlternateScreen"
    /\ \E ok \in BOOLEAN :
         IF ok THEN /\ alt_screen' = TRUE
                    /\ pc' = "Terminal_new"
                    /\ UNCHANGED exit_status
               ELSE /\ MainReturnsErr
                    /\ UNCHANGED alt_screen
    /\ UNCHANGED <<screen, raw_mode, cursor_shown, res, selected_index, picker,
                   last_event, printed, ticks>>

\* lines 17-21: Terminal::new(backend)?, then run_app is entered with
\* selected_index = 0 (lines 39-40).
main_Terminal_new ==
    /\ pc = "Terminal_new"
    /\ \E ok \in BOOLEAN :
         IF ok THEN /\ pc' = "run_app_draw"
                    /\ selected_index' = 0
                    /\ UNCHANGED exit_status
               ELSE /\ MainReturnsErr
                    /\ UNCHANGED selected_index
    /\ UNCHANGED <<screen, term, res, picker, last_event, printed, ticks>>

\* ---------------------------------------------------------------- run_app
\* run_app returns r to main (line 21), which goes on to the teardown.
RunAppReturns(r) ==
    /\ res' = r
    /\ pc' = "disable_raw_mode"

\* lines 43-69: terminal.draw(...)? draws the whole of menu_items under the
\* title "Main Menu" with state.select(Some(selected_index))
run_app_draw ==
    /\ pc = "run_app_draw"
    /\ draws' = draws + 1
    /\ \E ok \in BOOLEAN :
         /\ drawn' = <<"Main Menu", menu_items, selected_index, ok>>
         /\ IF ok THEN /\ pc' = "run_app_read"
                       /\ UNCHANGED res
                  ELSE RunAppReturns(Err("Draw"))
    /\ UNCHANGED <<term, selected_index, picker, last_event, printed, ticks,
                   exit_status>>

\* line 72: event::read()? fails
run_app_read_err ==
    /\ pc = "run_app_read"
    /\ ticks < MaxTicks
    /\ RunAppReturns(Err("Read"))
    /\ UNCHANGED <<screen, term, selected_index, picker, last_event, printed, ticks,
                   exit_status>>

\* event::read() delivers event e to run_app's loop
RunAppReads(e) ==
    /\ pc = "run_app_read"
    /\ ticks < MaxTicks
    /\ ticks' = ticks + 1
    /\ last_event' = <<"run_app", e>>

\* lines 74-78, then the sleep of line 98 and the next iteration
run_app_Up ==
    /\ RunAppReads("Up")
    /\ selected_index' = run_app_up(selected_index)
    /\ pc' = "run_app_draw"
    /\ UNCHANGED <<screen, term, res, picker, printed, exit_status>>

\* lines 79-83
run_app_Down ==
    /\ RunAppReads("Down")
    /\ selected_index' = run_app_down(selected_index)
    /\ pc' = "run_app_draw"
    /\ UNCHANGED <<screen, term, res, picker, printed, exit_status>>

\* lines 84-92: match selected_index { 0 => select_disk(terminal)?.., 2 =>
\* break, _ => {} }
run_app_Enter ==
    /\ RunAppReads("Enter")
    /\ CASE selected_index = 0 -> /\ pc' = "select_disk"
                                  /\ UNCHANGED res
         [] selected_index = 2 -> RunAppReturns(Ok("unit"))
         [] OTHER -> /\ pc' = "run_app_draw"
                     /\ UNCHANGED res
    /\ UNCHANGED <<screen, term, selected_index, picker, printed, exit_status>>

\* a slip of line 93: Esc falls into the `_ => {}` arm
run_app_Esc_ignored ==
    /\ RunAppReads("Esc")
    /\ pc' = "run_app_draw"
    /\ UNCHANGED <<screen, term, res, selected_index, picker, printed, exit_status>>

\* line 93: KeyCode::Esc => break, then Ok(()) of line 101
run_app_Esc ==
    /\ RunAppReads("Esc")
    /\ RunAppReturns(Ok("unit"))
    /\ UNCHANGED <<screen, term, selected_index, picker, printed, exit_status>>

\* a slip of the loop: an ignored event goes back to event::read() without
\* a redraw
run_app_ignored_no_redraw ==
    /\ \E e \in {"OtherKey", "NonKey"} : RunAppReads(e)
    /\ pc' = "run_app_read"
    /\ UNCHANGED <<screen, term, res, selected_index, picker, printed,
                   exit_status>>

\* line 94 (`_ => {}`) and the failed `if let Event::Key` of line 72
run_app_ignored ==
    /\ \E e \in {"OtherKey", "NonKey"} : RunAppReads(e)
    /\ pc' = "run_app_draw"
    /\ UNCHANGED <<screen, term, res, selected_index, picker, printed, exit_status>>

\* ------------------------------------------------------------ select_disk
\* select_disk returns r to line 86 of run_app: `select_disk(terminal)?`
\* hands an Err on to run_app's caller; an Ok value is printed (line 87) and
\* the loop goes on after the sleep.  select_disk's locals are gone.
SelectDiskReturns(r) ==
    /\ selected_disk' = r
    /\ disks' = <<>>
    /\ disk_selected_index' = 0
    /\ IF r[1] = "Ok"
       THEN /\ printed' = Append(printed, <<"Selected disk: ", r[2]>>)
            /\ pc' = "run_app_draw"
            /\ UNCHANGED res
       ELSE /\ RunAppReturns(r)
            /\ UNCHANGED printed

\* lines 105-112: Command::new("lsblk")...output().expect("Failed to get
\* disks") when the command cannot be run: the thread panics.  Nothing on
\* the way out of main disables raw mode or leaves the alternate screen.
select_disk_panic ==
    /\ pc = "select_disk"
    /\ output' = Err("QueryFailed")
    /\ pc' = "done"
    /\ exit_status' = "panic"
    /\ pick_draws' = 0
    /\ pick_reads' = 0
    /\ UNCHANGED <<screen, term, res, selected_index, disk_selected_index, disks,
                   selected_disk, last_event, printed, ticks>>

\* a slip of line 131: the device list of the first call is kept and used
\* again by later calls, although lsblk is run again
select_disk_start_cached ==
    /\ pc = "select_disk"
    /\ \E out \in LsblkOutputs :
         LET ds == IF output = None THEN get_available_disks(out)
                                    ELSE get_available_disks(output[2])
         IN  /\ output' = Ok(out)
             /\ IF ds = <<>>
                THEN SelectDiskReturns(Err("NotFound"))
                ELSE /\ disks' = ds
                     /\ disk_selected_index' = 0
                     /\ pc' = "select_disk_draw"
                     /\ UNCHANGED <<selected_disk, printed, res>>
    /\ pick_draws' = 0
    /\ pick_reads' = 0
    /\ UNCHANGED <<screen, term, selected_index, last_event, ticks,
                   exit_status>>

\* a slip of lines 132-134: the is_empty() check is missing
select_disk_start_unchecked ==
    /\ pc = "select_disk"
    /\ \E out \in LsblkOutputs :
         /\ output' = Ok(out)
         /\ disks' = get_available_disks(out)
         /\ disk_selected_index' = 0
         /\ pc' = "select_disk_draw"
         /\ UNCHANGED <<selected_disk, printed, res>>
    /\ pick_draws' = 0
    /\ pick_reads' = 0
    /\ UNCHANGED <<screen, term, selected_index, last_event, ticks, exit_status>>

\* lines 131-136: the command ran and printed out
select_disk_start ==
    /\ pc = "select_disk"
    /\ \E out \in LsblkOutputs :
         /\ output' = Ok(out)
         /\ IF get_available_disks(out) = <<>>
            THEN SelectDiskReturns(Err("NotFound"))
            ELSE /\ disks' = get_available_disks(out)
                 /\ disk_selected_index' = 0
                 /\ pc' = "select_disk_draw"
                 /\ UNCHANGED <<selected_disk, printed, res>>
    /\ pick_draws' = 0
    /\ pick_reads' = 0
    /\ UNCHANGED <<screen, term, selected_index, last_event, ticks, exit_status>>

\* a slip of line 155: the `?` is missing, the draw's result is dropped
select_disk_draw_unchecked ==
    /\ pc = "select_disk_draw"
    /\ pick_draws' = pick_draws + 1
    /\ draws' = draws + 1
    /\ \E ok \in BOOLEAN :
         drawn' = <<"Select a disk", disks, disk_selected_index, ok>>
    /\ pc' = "select_disk_read"
    /\ UNCHANGED <<term, res, selected_index, disks, disk_selected_index,
                   selected_disk, printed, output, last_event, ticks,
                   pick_reads, exit_status>>

\* lines 139-155: terminal.draw(...)? draws the whole of disks under the
\* title "Select a disk" with state.select(Some(selected_index))
select_disk_draw ==
    /\ pc = "select_disk_draw"
    /\ pick_draws' = pick_draws + 1
    /\ draws' = draws + 1
    /\ \E ok \in BOOLEAN :
         /\ drawn' = <<"Select a disk", disks, disk_selected_index, ok>>
         /\ IF ok THEN /\ pc' = "select_disk_read"
                       /\ UNCHANGED <<disks, disk_selected_index,
                                      selected_disk, printed, res>>
                  ELSE SelectDiskReturns(Err("Draw"))
    /\ UNCHANGED <<term, selected_index, output, last_event, ticks,
                   pick_reads, exit_status>>

\* line 158: event::read()? fails
select_disk_read_err ==
    /\ pc = "select_disk_read"
    /\ ticks < MaxTicks
    /\ pick_reads' = pick_reads + 1
    /\ SelectDiskReturns(Err("Read"))
    /\ UNCHANGED <<screen, term, selected_index, output, last_event, ticks,
                   pick_draws, exit_status>>

\* event::read() delivers event e to select_disk's loop.  MaxTicks bounds
\* the events that keep a loop going; the two keys that end select_disk can
\* still be pressed when that many events have been read.
SelectDiskReads(e) ==
    /\ pc = "select_disk_read"
    /\ (ticks < MaxTicks \/ (ticks = MaxTicks /\ e \in {"Enter", "Esc"}))
    /\ ticks' = ticks + 1
    /\ pick_reads' = pick_reads + 1
    /\ last_event' = <<"select_disk", e>>

\* lines 160-164
select_disk_Up ==
    /\ SelectDiskReads("Up")
    /\ disk_selected_index' = select_disk_up(disk_selected_index)
    /\ pc' = "select_disk_draw"
    /\ UNCHANGED <<screen, term, res, selected_index, disks, output,
                   selected_disk, printed, pick_draws, exit_status>>

\* a slip of lines 166-168: the picker moves run_app's cursor as well, as
\* if both loops shared one selected_index
select_disk_Down_shared ==
    /\ SelectDiskReads("Down")
    /\ disk_selected_index' = select_disk_down(disk_selected_index, Len(disks))
    /\ selected_index' = run_app_down(selected_index)
    /\ pc' = "select_disk_draw"
    /\ UNCHANGED <<screen, term, res, disks, output, selected_disk, printed,
                   pick_draws, exit_status>>

\* lines 165-169
select_disk_Down ==
    /\ SelectDiskReads("Down")
    /\ disk_selected_index' = select_disk_down(disk_selected_index, Len(disks))
    /\ pc' = "select_disk_draw"
    /\ UNCHANGED <<screen, term, res, selected_index, disks, output,
                   selected_disk, printed, pick_draws, exit_status>>

\* a slip of line 171: the `return` is missing, the loop goes on
select_disk_Enter_no_return ==
    /\ SelectDiskReads("Enter")
    /\ pc' = "select_disk_draw"
    /\ UNCHANGED <<screen, term, res, selected_index, disk_selected_index,
                   disks, output, selected_disk, printed, pick_draws,
                   exit_status>>

\* lines 170-172
select_disk_Enter ==
    /\ SelectDiskReads("Enter")
    /\ SelectDiskReturns(Ok(select_disk_current(disks, disk_selected_index)))
    /\ UNCHANGED <<screen, term, selected_index, output, pick_draws,
                   exit_status>>

\* lines 173-175
select_disk_Esc ==
    /\ SelectDiskReads("Esc")
    /\ SelectDiskReturns(Err("Interrupted"))
    /\ UNCHANGED <<screen, term, selected_index, output, pick_draws,
                   exit_status>>

\* a slip of line 176: an ignored event resets the cursor
select_disk_ignored_resets ==
    /\ \E e \in {"OtherKey", "NonKey"} : SelectDiskReads(e)
    /\ pc' = "select_disk_draw"
    /\ disk_selected_index' = 0
    /\ UNCHANGED <<screen, term, res, selected_index, disks, output,
                   selected_disk, printed, pick_draws, exit_status>>

\* line 176 (`_ => {}`) and the failed `if let Event::Key` of line 158
select_disk_ignored ==
    /\ \E e \in {"OtherKey", "NonKey"} : SelectDiskReads(e)
    /\ pc' = "select_disk_draw"
    /\ UNCHANGED <<screen, term, res, selected_index, disk_selected_index, disks,
                   output, selected_disk, printed, pick_draws,
                   exit_status>>

\* --------------------------------------------------------- main, teardown
\* a slip of line 24: the `?` is missing, a failure is dropped
main_disable_raw_mode_unchecked ==
    /\ pc = "disable_raw_mode"
    /\ \E ok \in BOOLEAN : raw_mode' = IF ok THEN FALSE ELSE raw_mode
    /\ pc' = "LeaveAlternateScreen"
    /\ UNCHANGED <<screen, alt_screen, cursor_shown, res, selected_index,
                   picker, last_event, printed, ticks, exit_status>>

\* line 24: disable_raw_mode()?
main_disable_raw_mode ==
    /\ pc = "disable_raw_mode"
    /\ \E ok \in BOOLEAN :
         IF ok THEN /\ raw_mode' = FALSE
                    /\ pc' = "LeaveAlternateScreen"
                    /\ UNCHANGED exit_status
               ELSE /\ MainReturnsErr
                    /\ UNCHANGED raw_mode
    /\ UNCHANGED <<screen, alt_screen, cursor_shown, res, selected_index, picker,
                   last_event, printed, ticks>>

\* lines 25-28: execute!(terminal.backend_mut(), LeaveAlternateScreen)?
main_LeaveAlternateScreen ==
    /\ pc = "LeaveAlternateScreen"
    /\ \E ok \in BOOLEAN :
         IF ok THEN /\ alt_screen' = FALSE
                    /\ pc' = "show_cursor"
                    /\ UNCHANGED exit_status
               ELSE /\ MainReturnsErr
                    /\ UNCHANGED alt_screen
    /\ UNCHANGED <<screen, raw_mode, cursor_shown, res, selected_index, picker,
                   last_event, printed, ticks>>

\* line 29: terminal.show_cursor()?
main_show_cursor ==
    /\ pc = "show_cursor"
    /\ \E ok \in BOOLEAN :
         IF ok THEN /\ cursor_shown' = TRUE
                    /\ pc' = "report"
                    /\ UNCHANGED exit_status
               ELSE /\ MainReturnsErr
                    /\ UNCHANGED cursor_shown
    /\ UNCHANGED <<screen, raw_mode, alt_screen, res, selected_index, picker,
                   last_event, printed, ticks>>

\* lines 31-35: print run_app's error if any, then Ok(())
main_report ==
    /\ pc = "report"
    /\ printed' = IF res[1] = "Err" THEN Append(printed, <<"error", res[2]>>)
                                    ELSE printed
    /\ pc' = "done"
    /\ exit_status' = "Ok"
    /\ UNCHANGED <<screen, term, res, selected_index, picker, last_event, ticks>>

Next ==
    \/ main_enable_raw_mode
    \/ main_EnterAlternateScreen
    \/ main_Terminal_new
    \/ run_app_draw
    \/ run_app_read_err
    \/ run_app_Up
    \/ run_app_Down
    \/ run_app_Enter
    \/ run_app_Esc
    \/ run_app_ignored
    \/ select_disk_panic
    \/ select_disk_start
    \/ select_disk_draw
    \/ select_disk_read_err
    \/ select_disk_Up
    \/ select_disk_Down
    \/ select_disk_Enter
    \/ select_disk_Esc
    \/ select_disk_ignored
    \/ main_disable_raw_mode
    \/ main_LeaveAlternateScreen
    \/ main_show_cursor
    \/ main_report

Spec == Init /\ [][Next]_vars

TypeOK ==
    /\ pc \in {"enable_raw_mode", "EnterAlternateScreen", "Terminal_new",
               "disable_raw_mode", "LeaveAlternateScreen", "show_cursor",
               "report", "done"} \cup RunAppPcs \cup SelectDiskPcs
    /\ raw_mode \in BOOLEAN /\ alt_screen \in BOOLEAN
    /\ cursor_shown \in BOOLEAN
    /\ selected_index \in Nat /\ disk_selected_index \in Nat
    /\ ticks \in 0..(MaxTicks + 1)
    /\ exit_status \in {"running", "Ok", "Err", "panic"}

\* ----------------------------------------------------------- properties
\* the step just taken read event e in the given loop
JustRead(loop, e) == ticks' = ticks + 1 /\ last_event' = <<loop, e>>

\* select_disk is inside its render/input loop
InPickerLoop == pc \in {"select_disk_draw", "select_disk_read"}

\* C1: in the main menu (2 actions) and in the disk picker (N devices,
\* N >= 1) the cursor always satisfies 0 <= cursor < N, whatever Up and Down
\* keys were read.
C1_CursorInBounds ==
    /\ 0 <= selected_index /\ selected_index < Len(menu_items)
    /\ InPickerLoop =>
         /\ Len(disks) >= 1
         /\ 0 <= disk_selected_index /\ disk_selected_index < Len(disks)

C1_Witness ==
    /\ pc = "select_disk_draw"
    /\ last_event = <<"select_disk", "Down">>
    /\ Len(disks) = 2
    /\ disk_selected_index = 1
    /\ pick_reads = 3

\* C2: Up at cursor 0 and Down at cursor N-1 leave the cursor where it is;
\* otherwise Up decreases it by exactly 1 and Down increases it by exactly
\* 1, in the main menu and in the disk picker.
C2_MoveSaturates ==
    [][ /\ JustRead("run_app", "Up") =>
             selected_index' =
                 IF selected_index = 0 THEN 0 ELSE selected_index - 1
        /\ JustRead("run_app", "Down") =>
             selected_index' =
                 IF selected_index = 1 THEN 1 ELSE selected_index + 1
        /\ JustRead("select_disk", "Up") =>
             disk_selected_index' =
                 IF disk_selected_index = 0 THEN 0
                 ELSE disk_selected_index - 1
        /\ JustRead("select_disk", "Down") =>
             disk_selected_index' =
                 IF disk_selected_index = Len(disks) - 1
                 THEN Len(disks) - 1 ELSE disk_selected_index + 1 ]_vars

C2_Witness ==
    /\ last_event = <<"run_app", "Up">>
    /\ selected_index = 0
    /\ ticks >= 2

\* C3: when the disk picker, entered by Enter on "Install", returns a
\* selected device, a cancellation or "no devices", the Menu Controller is
\* back in Running.
C3_PickerReturnsToRunning ==
    [][ ( /\ TransferringToSubflow
          /\ ~TransferringToSubflow'
          /\ \/ selected_disk'[1] = "Ok"
             \/ selected_disk' \in {Err("Interrupted"), Err("NotFound")}
          /\ exit_status' # "panic" )
        => Running' ]_vars

\* C4: Enter in the main menu with the cursor on "Exit" (index 1) makes the
\* Menu Controller Exited and ends its loop, without the picker being
\* invoked.
C4_EnterOnExitExits ==
    [][ (JustRead("run_app", "Enter") /\ menu_items[selected_index + 1] = "Exit")
        => (Exited' /\ ~Running' /\ ~TransferringToSubflow') ]_vars

\* C5: Escape in the disk picker ends the picker with Cancelled at every
\* cursor position, and the Menu Controller is then Running with its own
\* cursor unchanged.
C5_PickerEscResumesMenu ==
    [][ JustRead("select_disk", "Esc")
        => /\ selected_disk' = Err("Interrupted")
           /\ Running'
           /\ selected_index' = selected_index ]_vars

\* C6: once the terminal has been set up and run_app has been entered, the
\* process never ends with raw mode still enabled or the alternate screen
\* still entered, however run_app ended and whichever teardown step failed.
C6_TerminalReleasedOnExit ==
    (pc = "done" /\ (res # None \/ output # None))
        => (~raw_mode /\ ~alt_screen)

\* C7: Enter in the disk picker with the cursor at i returns the i-th
\* element of what the Device Lister produced for this invocation; for the
\* list [/dev/sda, /dev/sdb], Enter at cursor 1 (after Down) returns
\* /dev/sdb.
C7_EnterSelectsIth ==
    [][ JustRead("select_disk", "Enter")
        => /\ output[1] = "Ok"
           /\ disk_selected_index < Len(get_available_disks(output[2]))
           /\ selected_disk' =
                Ok(get_available_disks(output[2])[disk_selected_index + 1])
           /\ ( /\ output[2] = JoinLines(<<line_sda, line_sdb>>)
                /\ disk_selected_index = 1 )
              => selected_disk' = Ok(dev_sdb) ]_vars

C7_Witness ==
    /\ last_event = <<"select_disk", "Enter">>
    /\ output = Ok(JoinLines(<<line_sda, line_sdb>>))
    /\ pick_reads = 2
    /\ selected_disk = Ok(dev_sdb)

\* C8: when the Device Lister yields no device, select_disk returns
\* NotFound at once: no draw, no input read, and the loop that indexes
\* disks is never entered with an empty list.
C8_EmptyListShortCircuits ==
    /\ [](InPickerLoop => disks # <<>>)
    /\ [](selected_disk = Err("NotFound") =>
             pick_draws = 0 /\ pick_reads = 0)
    /\ [][ ( /\ pc = "select_disk"
             /\ output'[1] = "Ok"
             /\ get_available_disks(output'[2]) = <<>> )
           => /\ selected_disk' = Err("NotFound")
              /\ ~TransferringToSubflow'
              /\ pick_draws' = 0 /\ pick_reads' = 0
              /\ ticks' = ticks ]_vars

C8_Witness ==
    /\ selected_disk = Err("NotFound")
    /\ output = Ok(JoinLines(<<line_sr0>>))
    /\ pick_draws = 0
    /\ pick_reads = 0

\* C9: Escape in the main menu makes the Menu Controller Exited and ends
\* its loop, at cursor 0 and at cursor 1, also after picker invocations.
C9_EscExits ==
    [][ JustRead("run_app", "Esc")
        => (Exited' /\ ~Running' /\ ~TransferringToSubflow') ]_vars

C9_Witness ==
    /\ last_event = <<"run_app", "Esc">>
    /\ Exited
    /\ selected_index = 1
    /\ selected_disk[1] = "Ok"

\* C10: "zero devices" is returned by the picker as NotFound, and "the
\* query could not be run" reaches the top level as an error value of
\* run_app, after which the terminal is restored before the process ends.
C10_QueryFailurePropagates ==
    /\ (output[1] = "Ok" /\ get_available_disks(output[2]) = <<>>)
         => selected_disk = Err("NotFound")
    /\ (output = Err("QueryFailed") /\ pc = "done")
         => (res[1] = "Err" /\ ~raw_mode /\ ~alt_screen)

\* the latest terminal.draw call reported a failure
DrawFailed == drawn # None /\ ~drawn[4]

\* C11: a draw failure is fatal in both loops: run_app ends with that error
\* (through select_disk when the picker's draw failed), and after the
\* failure no event is read and no draw is attempted.
C11_DrawFailureIsFatal ==
    /\ [](DrawFailed => /\ ~Running /\ ~TransferringToSubflow
                        /\ res = Err("Draw"))
    /\ []((DrawFailed /\ drawn[1] = "Select a disk") =>
             selected_disk = Err("Draw"))
    /\ [][DrawFailed => (draws' = draws /\ ticks' = ticks
                         /\ last_event' = last_event)]_vars

C11_Witness ==
    /\ pc = "done"
    /\ DrawFailed
    /\ drawn[1] = "Select a disk"
    /\ drawn[3] = 1
    /\ printed = <<<<"error", "Draw">>>>

\* C12: every event::read() of either loop comes right after a successful
\* draw of the whole list with the current cursor highlighted, one draw per
\* read, whether or not the previous event changed anything.
C12_DrawBeforeEveryRead ==
    /\ pc = "run_app_read" =>
         /\ drawn = <<"Main Menu", menu_items, selected_index, TRUE>>
         /\ draws = ticks + 1
    /\ pc = "select_disk_read" =>
         /\ drawn = <<"Select a disk", disks, disk_selected_index, TRUE>>
         /\ draws = ticks + 1

C12_Witness ==
    /\ pc = "run_app_read"
    /\ last_event = <<"run_app", "OtherKey">>
    /\ selected_index = 1
    /\ draws = 4

\* C13: a key other than Up, Down, Enter and Escape, or an event that is
\* not a key event, changes neither cursor, nor the controller state, nor
\* the device list, and the loop that read it continues.
C13_OtherEventsIgnored ==
    [][ \A loop \in {"run_app", "select_disk"} :
        \A e \in {"OtherKey", "NonKey"} :
          JustRead(loop, e) =>
            /\ selected_index' = selected_index
            /\ disk_selected_index' = disk_selected_index
            /\ disks' = disks
            /\ res' = res /\ selected_disk' = selected_disk
            /\ Running' = Running
            /\ InPickerLoop' = InPickerLoop
            /\ (Running \/ InPickerLoop) ]_vars

C13_Witness ==
    /\ last_event = <<"select_disk", "NonKey">>
    /\ pc = "select_disk_draw"
    /\ disk_selected_index = 1
    /\ Len(disks) = 2

\* ------------------------------------------- get_available_disks alone
\* Maximum number of lines of an lsblk output given to get_available_disks
\* in SpecLister.
MaxListerLines == 3

\* Lines lsblk may print, each with what the Device Lister is to make of it
\* (keep: the device path in a one-element sequence, or nothing).
ListerCases ==
    { [line |-> line_sda, keep |-> <<dev_sda>>],
      [line |-> line_sdb, keep |-> <<dev_sdb>>],
      [line |-> line_sr0, keep |-> <<>>],
      [line |-> <<"s", "d", "c">>, keep |-> <<>>],
      [line |-> <<"s", "d", "d", " ", "d", "i", "s", "k", " ", "x">>,
       keep |-> <<>>],
      [line |-> <<>>, keep |-> <<>>],
      [line |-> <<"d", "i", "s", "k", " ", "s", "d", "e">>, keep |-> <<>>],
      [line |-> <<"\t", "s", "d", "f", "\t", "d", "i", "s", "k", " ">>,
       keep |-> <<dev_sdf>>] }

RECURSIVE CaseLines(_)
CaseLines(cs) ==
    IF cs = <<>> THEN <<>> ELSE <<Head(cs).line>> \o CaseLines(Tail(cs))

RECURSIVE CaseKept(_)
CaseKept(cs) ==
    IF cs = <<>> THEN <<>> ELSE Head(cs).keep \o CaseKept(Tail(cs))

\* Every stdout of SpecLister, paired with the device list the line-by-line
\* rule gives for it.
ListerTable ==
    { <<JoinLines(CaseLines(cs)), CaseKept(cs)>> :
        cs \in SeqsUpTo(ListerCases, MaxListerLines) }

InitLister ==
    /\ pc = "get_available_disks"
    /\ raw_mode = TRUE
    /\ alt_screen = TRUE
    /\ cursor_shown = FALSE
    /\ res = None
    /\ selected_index = 0
    /\ disk_selected_index = 0
    /\ disks = <<>>
    /\ output = None
    /\ selected_disk = None
    /\ last_event = <<"run_app", "Enter">>
    /\ printed = <<>>
    /\ ticks = 1
    /\ pick_draws = 0
    /\ pick_reads = 0
    /\ drawn = <<"Main Menu", menu_items, 0, TRUE>>
    /\ draws = 1
    /\ exit_status = "running"

\* lines 104-128 with a command that ran: the value returned to line 131
lister_run ==
    /\ pc = "get_available_disks"
    /\ \E row \in ListerTable :
         /\ output' = Ok(row[1])
         /\ disks' = get_available_disks(row[1])
    /\ pc' = "listed"
    /\ UNCHANGED <<screen, term, res, selected_index, disk_selected_index,
                   selected_disk, last_event, printed, ticks, pick_draws,
                   pick_reads, exit_status>>

NextLister == lister_run

SpecLister == InitLister /\ [][NextLister]_vars

\* C14: a line of the query's output is kept exactly when it splits on
\* whitespace into a name and the tag "disk"; a kept name n becomes /dev/n;
\* every other line (other tag, one or three fields, empty, tag first) is
\* skipped; kept paths come in the order of their lines.
C14_ListerKeepsDiskLines ==
    pc = "listed" => <<output[2], disks>> \in ListerTable

C14_Witness ==
    /\ pc = "listed"
    /\ Len(Lines(output[2])) = 3
    /\ disks = <<dev_sdf, dev_sda>>

\* C15: when run_app has returned an error, the process ends only after
\* the terminal has been restored (raw mode off, alternate screen left,
\* cursor shown) and then the error has been printed.
C15_ErrorPrintedAfterRestore ==
    (pc = "done" /\ res[1] = "Err")
        => /\ ~raw_mode /\ ~alt_screen /\ cursor_shown
           /\ printed # <<>>
           /\ printed[Len(printed)] = <<"error", res[2]>>

\* C16: the device list of each select_disk call is what the Device Lister
\* produced in that call: it is the list drawn and the list selected from,
\* also when an earlier call saw another list.
C16_DeviceListIsFresh ==
    /\ [](InPickerLoop =>
            /\ output[1] = "Ok"
            /\ disks = get_available_disks(output[2]))
    /\ [](pc = "select_disk_read" => drawn[2] = get_available_disks(output[2]))
    /\ [][JustRead("select_disk", "Enter") =>
            \E i \in 1..Len(get_available_disks(output[2])) :
               selected_disk' = Ok(get_available_disks(output[2])[i])]_vars

C16_Witness ==
    /\ pc = "select_disk_read"
    /\ selected_disk = Ok(dev_sdb)
    /\ output = Ok(JoinLines(<<line_sr0, line_sda>>))
    /\ disks = <<dev_sda>>

C18_MenuSuspendedDuringPicker ==
    /\ [](TransferringToSubflow => selected_index = 0 /\ res = None)
    /\ [][(TransferringToSubflow /\ ticks' # ticks) =>
            /\ last_event'[1] = "select_disk"
            /\ selected_index' = selected_index]_vars
    /\ [][(pc = "select_disk" /\ InPickerLoop') =>
            disk_selected_index' = 0]_vars
    /\ [][(InPickerLoop /\ Running') =>
            /\ JustRead("select_disk", "Enter")
            /\ selected_disk'[1] = "Ok"
            /\ selected_index = 0
            /\ selected_index' = 0]_vars

C18_Witness ==
    /\ Running
    /\ last_event = <<"select_disk", "Enter">>
    /\ selected_disk = Ok(dev_sdb)
    /\ pick_reads = 3
    /\ selected_index = 0

\* main's teardown positions, in order
TeardownPcs == {"disable_raw_mode", "LeaveAlternateScreen", "show_cursor",
                "report"}

\* run_app's error has been printed (line 32)
ErrorPrinted == \E i \in 1..Len(printed) : printed[i][1] = "error"

\* C19: main's teardown runs disable_raw_mode, LeaveAlternateScreen,
\* show_cursor and the printing of run_app's error in this order, each only
\* after every earlier one succeeded; a failing step ends main at once with
\* the later steps not run and run_app's error not printed.
C19_TeardownIsStrictSequence ==
    /\ [](pc = "LeaveAlternateScreen" => ~raw_mode)
    /\ [](pc = "show_cursor" => (~raw_mode /\ ~alt_screen))
    /\ [](pc = "report" => (~raw_mode /\ ~alt_screen /\ cursor_shown))
    /\ [](ErrorPrinted => (~raw_mode /\ ~alt_screen /\ cursor_shown))
    /\ [][(pc \in TeardownPcs /\ exit_status' = "Err") =>
            /\ pc' = "done"
            /\ UNCHANGED <<raw_mode, alt_screen, cursor_shown, printed>>]_vars
    /\ []((pc = "done" /\ exit_status = "Err") =>
            (~cursor_shown /\ ~ErrorPrinted))

C19_Witness ==
    /\ pc = "done"
    /\ exit_status = "Err"
    /\ res = Err("Interrupted")
    /\ ~raw_mode
    /\ alt_screen
    /\ printed = <<>>

\* ------------------------------------------------------------- liveness
\* The program's own steps are taken (a draw that is due happens), and the
\* user, asked for input by select_disk again and again, eventually presses
\* Enter or Esc.
SpecLive ==
    /\ Init
    /\ [][Next]_vars
    /\ WF_vars(select_disk_draw)
    /\ SF_vars(select_disk_Enter \/ select_disk_Esc)

\* C20: select_disk's loop ends only on Enter (returning a device), on Esc
\* (returning the cancellation) or on a failed draw or read; and, with a
\* user who eventually presses Enter or Esc, a select_disk that has entered
\* its loop eventually returns its one result to run_app.
C20_PickerEventuallyReturns ==
    /\ [][(InPickerLoop /\ ~InPickerLoop') =>
            \/ /\ JustRead("select_disk", "Enter")
               /\ selected_disk'[1] = "Ok"
               /\ Len(printed') = Len(printed) + 1
               /\ Running'
            \/ /\ JustRead("select_disk", "Esc")
               /\ selected_disk' = Err("Interrupted")
               /\ res' = selected_disk'
            \/ /\ ticks' = ticks
               /\ selected_disk' \in {Err("Draw"), Err("Read")}
               /\ res' = selected_disk']_vars
    /\ InPickerLoop ~> ~InPickerLoop

C20_Witness ==
    /\ last_event = <<"select_disk", "Esc">>
    /\ selected_disk = Err("Interrupted")
    /\ pick_reads = 3
    /\ pick_draws = 3
    /\ ~TransferringToSubflow

====
